---- MODULE Spec2Model ----
(***************************************************************************)
(* Model of src/index.js: an Express application with a Mongo-backed user  *)
(* collection, an express-session store (connect-mongo) and role gates.    *)
(*                                                                         *)
(* State                                                                   *)
(*   users     the User collection, in insertion order; a record's _id is  *)
(*             its position                                                *)
(*   sessions  the session store: for every cookie token the stored        *)
(*             session document or NoSession. A token stands for the       *)
(*             cookie one client holds: the id generated for a client that *)
(*             presented no live session is that client's token from then  *)
(*             on. A document holds the                                    *)
(*             snapshot and its store expiry; the expiry is kept as the    *)
(*             time left until it (expires - Date.now(), in ticks of half  *)
(*             an hour, 0 once it has passed), so the clock itself is not  *)
(*             part of the state and Tick is the passing of time           *)
(*   resp      the request served by the step and the response written to  *)
(*             it (NoResp when the step served no request)                 *)
(*   life      history: per token, whether a signup or login succeeded and *)
(*             no logout or expiry of the stored session happened since    *)
(*   inflight  the requests whose handler chain is suspended at an await:  *)
(*             per request slot its route, token, id, position and the     *)
(*             req.session it loaded (Idle when the slot is empty)         *)
(*                                                                         *)
(* Spec serves every request in one step. ConcSpec runs two role requests  *)
(* side by side, one step per stretch of code between two awaits (session  *)
(* load, gates and query, the write in the collection, response).          *)
(*                                                                         *)
(* Every route runs behind the session middleware. The form pages          *)
(* GET /signup and GET /login and the 404 handler read and write nothing   *)
(* but what the middleware does for any request; GET / stands for them.    *)
(***************************************************************************)
EXTENDS Integers, Sequences, FiniteSets, TLC

VARIABLES users, sessions, resp, life, inflight

vars == <<users, sessions, resp, life, inflight>>

----------------------------------------------------------------------------
(* Bounds *)

(* the collection holds at most MaxUsers records *)
MaxUsers == 2

(* cookie: { maxAge: 1000 * 60 * 60 }: one hour = 2 ticks *)
MaxAge == 2

Tokens == {"t1", "t2"}
Salts == {"s1"}

----------------------------------------------------------------------------
(* Request bodies: a body is a function from the keys it carries to strings *)

LongName == "nnnnnnnnnnnnnnnnnnnnnnnnnnnnnnn"

GoodBodies ==
    { [name |-> "A", email |-> e, password |-> "secret"] :
        e \in {"a@x.com", "b@x.com"} }
    \cup
    { [name |-> "A", email |-> e, password |-> "secret", user_type |-> r] :
        e \in {"a@x.com", "b@x.com"}, r \in {"user", "admin"} }

BadSignupBodies ==
    { [name |-> LongName, email |-> "a@x.com", password |-> "secret"],
      [name |-> "A", email |-> "a.x.com", password |-> "secret"],
      [name |-> "A", email |-> "a@x.com"],
      [name |-> "A", email |-> "a@x.com", password |-> "secret", user_type |-> "root"] }

SignupBodies == GoodBodies \cup BadSignupBodies

LoginBodies ==
    { [email |-> e, password |-> p] :
        e \in {"a@x.com", "b@x.com"}, p \in {"secret", "hunter2"} }
    \cup
    { [email |-> "a@x", password |-> "secret"],
      [email |-> "a@x.com", password |-> "abc"],
      [email |-> "a@x.com", password |-> "secret", user_type |-> "admin"] }

----------------------------------------------------------------------------
(* Joi validation *)

Has(body, key) == key \in DOMAIN body

CharAt(s, i) == SubSeq(s, i, i)

Positions(s, c) == { i \in 1..Len(s) : CharAt(s, i) = c }

(* Joi.string(): a non-empty string *)
JoiString(body, key) == Has(body, key) /\ Len(body[key]) > 0

(* Joi.string().email(): one "@", a non-empty local part and a domain of at
   least two non-empty segments *)
JoiEmail(s) ==
    /\ Cardinality(Positions(s, "@")) = 1
    /\ LET at == CHOOSE i \in Positions(s, "@") : TRUE
           dots == { i \in Positions(s, ".") : i > at }
       IN  /\ at > 1
           /\ dots # {}
           /\ \A i \in dots : i > at + 1 /\ i < Len(s) /\ (i + 1) \notin dots

SignupKeys == {"name", "email", "password", "user_type"}
LoginKeys == {"email", "password"}

(* faulty variant: user_type is any string *)
SignupSchemaAnyRole(body) ==
    /\ DOMAIN body \subseteq SignupKeys
    /\ JoiString(body, "name") /\ Len(body["name"]) <= 30
    /\ JoiString(body, "email") /\ JoiEmail(body["email"])
    /\ JoiString(body, "password")
    /\ Len(body["password"]) >= 5 /\ Len(body["password"]) <= 30
    /\ Has(body, "user_type") => Len(body["user_type"]) > 0

(* the schema of POST /signup *)
SignupSchema(body) ==
    /\ DOMAIN body \subseteq SignupKeys
    /\ JoiString(body, "name") /\ Len(body["name"]) <= 30
    /\ JoiString(body, "email") /\ JoiEmail(body["email"])
    /\ JoiString(body, "password")
    /\ Len(body["password"]) >= 5 /\ Len(body["password"]) <= 30
    /\ Has(body, "user_type") => body["user_type"] \in {"user", "admin"}

(* the bodies the schema accepts, worked out once for the bodies of the model *)
AcceptedSignupBodies == { body \in SignupBodies : SignupSchema(body) }

(* schema.validate(req.body) reports no error *)
SignupValid(body) == body \in AcceptedSignupBodies

(* faulty variant: the supplied user_type is ignored *)
SignupValueAlwaysUser(body) ==
    [name |-> body["name"], email |-> body["email"], password |-> body["password"],
     user_type |-> "user"]

(* the validated value: user_type defaults to 'user' *)
SignupValue(body) ==
    [name |-> body["name"], email |-> body["email"], password |-> body["password"],
     user_type |-> IF Has(body, "user_type") THEN body["user_type"] ELSE "user"]

(* the schema of POST /login *)
LoginSchema(body) ==
    /\ DOMAIN body \subseteq LoginKeys
    /\ JoiString(body, "email") /\ JoiEmail(body["email"])
    /\ JoiString(body, "password")
    /\ Len(body["password"]) >= 5 /\ Len(body["password"]) <= 30

AcceptedLoginBodies == { body \in LoginBodies : LoginSchema(body) }

(* schema.validate(req.body) reports no error *)
LoginValid(body) == body \in AcceptedLoginBodies

----------------------------------------------------------------------------
(* bcrypt: a salted one-way digest; compare re-hashes with the digest's salt *)

BcryptHash(pw, salt) == <<"$2b$10$", salt, pw>>

BcryptCompare(pw, digest) == digest = BcryptHash(pw, digest[2])

----------------------------------------------------------------------------
(* The session store *)

NoSession == [absent |-> TRUE]

(* store.get: the document of the token unless its expiry has passed *)
LoadSession(k) ==
    IF sessions[k] # NoSession /\ sessions[k].expiresIn > 0
    THEN sessions[k] ELSE NoSession

(* a request carrying token k has a req.session.user *)
Attached(k) == LoadSession(k) # NoSession

(* end of a request that left req.session unmodified (resave: false): a loaded
   session is touched, its store expiry becomes Date.now() + maxAge; a new, empty
   session is not saved (saveUninitialized: false) *)
TouchStore(k) ==
    IF Attached(k)
    THEN [sessions EXCEPT ![k].expiresIn = MaxAge]
    ELSE sessions

(* faulty variant: a user has one session at a time, a new one ends the others *)
SaveStoreSingleSession(k, snapshot) ==
    [k2 \in Tokens |->
        IF k2 = k THEN [user |-> snapshot, expiresIn |-> MaxAge]
        ELSE IF sessions[k2] # NoSession /\ sessions[k2].user.email = snapshot.email
        THEN NoSession
        ELSE sessions[k2]]

(* end of a request that assigned req.session.user: the session is saved *)
SaveStore(k, snapshot) ==
    [sessions EXCEPT ![k] = [user |-> snapshot, expiresIn |-> MaxAge]]

(* faulty variant: logout leaves the stored session in place *)
DestroyStoreKeeps(k) == sessions

(* req.session.destroy *)
DestroyStore(k) == [sessions EXCEPT ![k] = NoSession]

Snapshot(u) == [name |-> u.name, email |-> u.email, user_type |-> u.user_type]

----------------------------------------------------------------------------
(* Requests and responses *)

NoResp == [route |-> "none"]

Response(k, route, status, out) ==
    [route |-> route, token |-> k, status |-> status, out |-> out]

(* what a handler run leaves behind: the collection, the session store and the
   response *)
Outcome(us, ss, r) == [users |-> us, sessions |-> ss, resp |-> r]

Pass == [status |-> 0, out |-> "next"]
RedirectLogin == [status |-> 302, out |-> "redirect /login"]
Forbidden == [status |-> 403, out |-> "render 403"]

(* the ids a promote or demote request may name (req.params.id, any string of
   the URL): those of the stored users, one that resolves to no record, and 0
   for a string that is no ObjectId at all, such as /promote/abc *)
Ids == 0..(MaxUsers + 1)

(* the string casts to an ObjectId *)
CastsToObjectId(id) == id > 0

----------------------------------------------------------------------------
(* Gates *)

(* faulty variant: the gate answers a missing session as isAdmin does *)
isAuthenticatedForbids(k) ==
    IF Attached(k) THEN Pass ELSE Forbidden

isAuthenticated(k) ==
    IF Attached(k) THEN Pass ELSE RedirectLogin

(* faulty variant: the role comparison is dropped *)
isAdminAnyRole(k) ==
    IF Attached(k) THEN Pass ELSE Forbidden

(* faulty variant: a missing snapshot role is answered as isAuthenticated does *)
isAdminRedirects(k) ==
    IF Attached(k) /\ LoadSession(k).user.user_type = "admin" THEN Pass
    ELSE IF Attached(k) THEN Forbidden ELSE RedirectLogin

(* faulty variant: the role is looked up in the collection instead of the snapshot *)
isAdminFreshLookup(k) ==
    IF /\ Attached(k)
       /\ \E i \in 1..Len(users) :
              /\ users[i].email = LoadSession(k).user.email
              /\ users[i].user_type = "admin"
    THEN Pass ELSE Forbidden

isAdmin(k) ==
    IF Attached(k) /\ LoadSession(k).user.user_type = "admin" THEN Pass ELSE Forbidden

----------------------------------------------------------------------------
(* The collection *)

(* User.findOne({ email }): a stored record with that email; which one, when
   several share it, is the store's natural order and not fixed by the code *)
FindOne(email) ==
    IF \E i \in 1..Len(users) : users[i].email = email
    THEN { i \in 1..Len(users) : users[i].email = email }
    ELSE {0}

(* faulty variant: the update replaces the document instead of using $set *)
UpdateOneReplaces(id, role) ==
    IF id \in 1..Len(users)
    THEN [users EXCEPT ![id] = [name |-> "", email |-> "", password |-> <<>>,
                                user_type |-> role]]
    ELSE users

(* faulty variant: the request flips the role it finds instead of setting it *)
UpdateOneToggles(id, role) ==
    IF id \in 1..Len(users)
    THEN [users EXCEPT ![id].user_type = IF @ = "admin" THEN "user" ELSE "admin"]
    ELSE users

(* User.updateOne({ _id: id }, { $set: { user_type: role } }) *)
UpdateOne(id, role) ==
    IF id \in 1..Len(users)
    THEN [users EXCEPT ![id].user_type = role]
    ELSE users

----------------------------------------------------------------------------
(* History *)

Observe ==
    life' = [k \in Tokens |->
            IF resp' # NoResp /\ resp'.token = k /\ resp'.out = "redirect /members"
            THEN "active"
            ELSE IF resp' # NoResp /\ resp'.token = k /\ resp'.route = "GET /logout"
            THEN "absent"
            ELSE IF /\ resp' = NoResp /\ sessions'[k] # NoSession
                    /\ sessions'[k].expiresIn = 0
            THEN "absent"
            ELSE life[k]]

----------------------------------------------------------------------------
(* the request slots of ConcSpec *)
Reqs == {1, 2}

(* the two role routes and what each sets *)
SetRoleRoutesOf ==
    { [route |-> "GET /promote/:id", role |-> "admin"],
      [route |-> "GET /demote/:id", role |-> "user"] }

Idle == [pc |-> "idle"]

Init ==
    /\ users = <<>>
    /\ sessions = [k \in Tokens |-> NoSession]
    /\ resp = NoResp
    /\ life = [k \in Tokens |-> "absent"]
    /\ inflight = [r \in Reqs |-> Idle]

(* GET / *)
GetIndexOut(k) ==
    Outcome(users, TouchStore(k), Response(k, "GET /", 200, "render index"))

(* POST /signup *)
PostSignupOut(k, body, salt) ==
    IF ~SignupValid(body)
    THEN Outcome(users, TouchStore(k),
                 Response(k, "POST /signup", 200, "send validation error"))
    ELSE LET value == SignupValue(body)
             newUser == [name |-> value.name, email |-> value.email,
                         password |-> BcryptHash(value.password, salt),
                         user_type |-> value.user_type]
         IN  Outcome(Append(users, newUser), SaveStore(k, Snapshot(newUser)),
                     Response(k, "POST /signup", 302, "redirect /members"))

(* faulty variant: a wrong password ends the session of the request *)
PostLoginFoundLogsOut(k, body, i) ==
    IF i = 0
    THEN Outcome(users, TouchStore(k),
                 Response(k, "POST /login", 200, "send User not found"))
    ELSE IF ~BcryptCompare(body["password"], users[i].password)
    THEN Outcome(users, DestroyStore(k),
                 Response(k, "POST /login", 200, "send Invalid password"))
    ELSE Outcome(users, SaveStore(k, Snapshot(users[i])),
                 Response(k, "POST /login", 302, "redirect /members"))

(* POST /login once findOne has answered with record i (0: no record) *)
PostLoginFound(k, body, i) ==
    IF i = 0
    THEN Outcome(users, TouchStore(k),
                 Response(k, "POST /login", 200, "send User not found"))
    ELSE IF ~BcryptCompare(body["password"], users[i].password)
    THEN Outcome(users, TouchStore(k),
                 Response(k, "POST /login", 200, "send Invalid password"))
    ELSE Outcome(users, SaveStore(k, Snapshot(users[i])),
                 Response(k, "POST /login", 302, "redirect /members"))

(* POST /login: the outcomes the request can have *)
PostLoginOuts(k, body) ==
    IF ~LoginValid(body)
    THEN { Outcome(users, TouchStore(k),
                   Response(k, "POST /login", 200, "send validation error")) }
    ELSE { PostLoginFound(k, body, i) : i \in FindOne(body["email"]) }

(* GET /members *)
GetMembersOut(k) ==
    IF isAuthenticated(k) # Pass
    THEN Outcome(users, TouchStore(k),
                 Response(k, "GET /members", isAuthenticated(k).status, isAuthenticated(k).out))
    ELSE Outcome(users, TouchStore(k), Response(k, "GET /members", 200, "render cats"))

(* faulty variant: the role check of the handler is missing *)
GetAdminOutNoRoleCheck(k) ==
    IF isAuthenticated(k) # Pass
    THEN Outcome(users, TouchStore(k),
                 Response(k, "GET /admin", isAuthenticated(k).status, isAuthenticated(k).out))
    ELSE Outcome(users, TouchStore(k), Response(k, "GET /admin", 200, "render admin"))

(* GET /admin *)
GetAdminOut(k) ==
    IF isAuthenticated(k) # Pass
    THEN Outcome(users, TouchStore(k),
                 Response(k, "GET /admin", isAuthenticated(k).status, isAuthenticated(k).out))
    ELSE IF LoadSession(k).user.user_type # "admin"
    THEN Outcome(users, TouchStore(k), Response(k, "GET /admin", 200, "render index"))
    ELSE Outcome(users, TouchStore(k), Response(k, "GET /admin", 200, "render admin"))

(* faulty variant: the last admin is not demoted *)
SetRoleOutKeepsLastAdmin(k, route, id, role) ==
    IF isAuthenticated(k) # Pass
    THEN Outcome(users, TouchStore(k),
                 Response(k, route, isAuthenticated(k).status, isAuthenticated(k).out))
    ELSE IF isAdmin(k) # Pass
    THEN Outcome(users, TouchStore(k), Response(k, route, isAdmin(k).status, isAdmin(k).out))
    ELSE IF /\ role = "user"
            /\ \A j \in 1..Len(users) : users[j].user_type = "admin" => j = id
    THEN Outcome(users, TouchStore(k), Response(k, route, 302, "redirect /admin"))
    ELSE Outcome(UpdateOne(id, role), TouchStore(k), Response(k, route, 302, "redirect /admin"))

(* faulty variant: a role change ends the sessions of the user it changes *)
SetRoleOutEndsSessions(k, route, id, role) ==
    IF isAuthenticated(k) # Pass
    THEN Outcome(users, TouchStore(k),
                 Response(k, route, isAuthenticated(k).status, isAuthenticated(k).out))
    ELSE IF isAdmin(k) # Pass
    THEN Outcome(users, TouchStore(k), Response(k, route, isAdmin(k).status, isAdmin(k).out))
    ELSE Outcome(UpdateOne(id, role),
                 [k2 \in Tokens |->
                     IF /\ id \in 1..Len(users) /\ k2 # k /\ sessions[k2] # NoSession
                        /\ sessions[k2].user.email = users[id].email
                     THEN NoSession ELSE TouchStore(k)[k2]],
                 Response(k, route, 302, "redirect /admin"))

(* GET /promote/:id and GET /demote/:id with an id the query accepts *)
SetRoleOut(k, route, id, role) ==
    IF isAuthenticated(k) # Pass
    THEN Outcome(users, TouchStore(k),
                 Response(k, route, isAuthenticated(k).status, isAuthenticated(k).out))
    ELSE IF isAdmin(k) # Pass
    THEN Outcome(users, TouchStore(k), Response(k, route, isAdmin(k).status, isAdmin(k).out))
    ELSE Outcome(UpdateOne(id, role), TouchStore(k), Response(k, route, 302, "redirect /admin"))

PromoteOut(k, id) == SetRoleOut(k, "GET /promote/:id", id, "admin")

DemoteOut(k, id) == SetRoleOut(k, "GET /demote/:id", id, "user")

(* the handler past both gates with an id that does not cast: the query
   rejects with a CastError before it reaches the collection, the await throws
   and the redirect is never written. Nothing in the file catches it: the
   request is left without a response (and the session untouched), or, where
   the framework forwards rejections, answered by the default error page. *)
CastErrorOuts(k, route) ==
    { Outcome(users, sessions, Response(k, route, 0, "no response")),
      Outcome(users, TouchStore(k), Response(k, route, 500, "error page")) }

(* GET /promote/:id and GET /demote/:id: the outcomes the request can have *)
SetRoleOuts(k, route, id, role) ==
    IF isAuthenticated(k) = Pass /\ isAdmin(k) = Pass /\ ~CastsToObjectId(id)
    THEN CastErrorOuts(k, route)
    ELSE { SetRoleOut(k, route, id, role) }

PromoteOuts(k, id) == SetRoleOuts(k, "GET /promote/:id", id, "admin")

DemoteOuts(k, id) == SetRoleOuts(k, "GET /demote/:id", id, "user")

(* faulty variant: the route is put behind isAuthenticated *)
LogoutOutNeedsSession(k) ==
    IF isAuthenticated(k) # Pass
    THEN Outcome(users, TouchStore(k),
                 Response(k, "GET /logout", isAuthenticated(k).status, isAuthenticated(k).out))
    ELSE Outcome(users, DestroyStore(k), Response(k, "GET /logout", 302, "redirect /"))

(* GET /logout *)
LogoutOut(k) ==
    Outcome(users, DestroyStore(k), Response(k, "GET /logout", 302, "redirect /"))

----------------------------------------------------------------------------
(* Actions: one request served, or time passing *)

(* the request ends in one of the outcomes *)
Serve(outcomes) ==
    \E o \in outcomes :
        /\ users' = o.users
        /\ sessions' = o.sessions
        /\ resp' = o.resp
        /\ Observe
        /\ UNCHANGED inflight

GetIndex(k) == Serve({GetIndexOut(k)})

PostSignup(k, body, salt) ==
    /\ SignupValid(body) => Len(users) < MaxUsers
    /\ Serve({PostSignupOut(k, body, salt)})

PostLogin(k, body) == Serve(PostLoginOuts(k, body))

GetMembers(k) == Serve({GetMembersOut(k)})

GetAdmin(k) == Serve({GetAdminOut(k)})

Promote(k, id) == Serve(PromoteOuts(k, id))

Demote(k, id) == Serve(DemoteOuts(k, id))

Logout(k) == Serve({LogoutOut(k)})

(* half an hour passes: every stored expiry is half an hour nearer *)
Tick ==
    /\ sessions' = [k \in Tokens |->
            IF sessions[k] # NoSession /\ sessions[k].expiresIn > 0
            THEN [sessions[k] EXCEPT !.expiresIn = @ - 1]
            ELSE sessions[k]]
    /\ resp' = NoResp
    /\ UNCHANGED <<users, inflight>>
    /\ Observe

Next ==
    \/ \E k \in Tokens : GetIndex(k)
    \/ \E k \in Tokens, body \in SignupBodies, salt \in Salts : PostSignup(k, body, salt)
    \/ \E k \in Tokens, body \in LoginBodies : PostLogin(k, body)
    \/ \E k \in Tokens : GetMembers(k)
    \/ \E k \in Tokens : GetAdmin(k)
    \/ \E k \in Tokens, id \in Ids : Promote(k, id)
    \/ \E k \in Tokens, id \in Ids : Demote(k, id)
    \/ \E k \in Tokens : Logout(k)
    \/ Tick

Spec == Init /\ [][Next]_vars

----------------------------------------------------------------------------
(* Two role requests side by side. The session middleware reads the session
   of the request from the store; its callback runs the gates and the handler
   up to `await User.updateOne` in one stretch; the collection applies the
   update to the one document; the handler resumes and writes the redirect,
   and the session is touched as the response ends. *)

(* the record the i-th signup stored: signups with any user_type *)
StoredUser(i, role) ==
    [name |-> "A", email |-> IF i % 2 = 1 THEN "a@x.com" ELSE "b@x.com",
     password |-> BcryptHash("secret", "s1"), user_type |-> role]

(* a collection of signed-up users; on every token no session, or the session
   a login as one of them created half an hour before the expiry; two
   requests arrive for the same id *)
ConcInit ==
    /\ \E n \in 1..MaxUsers : \E roles \in [1..n -> {"user", "admin"}] :
           users = [i \in 1..n |-> StoredUser(i, roles[i])]
    /\ \E who \in [Tokens -> 0..MaxUsers] :
           /\ \A k \in Tokens : who[k] <= Len(users)
           /\ sessions = [k \in Tokens |->
                  IF who[k] = 0 THEN NoSession
                  ELSE [user |-> Snapshot(users[who[k]]), expiresIn |-> 1]]
    /\ resp = NoResp
    /\ life = [k \in Tokens |-> IF Attached(k) THEN "active" ELSE "absent"]
    /\ \E id \in Ids : \E route \in [Reqs -> SetRoleRoutesOf] :
       \E token \in [Reqs -> Tokens] :
           inflight = [r \in Reqs |->
                          [pc |-> "start", route |-> route[r].route,
                           role |-> route[r].role, token |-> token[r], id |-> id]]

(* store.get answers; isAuthenticated and isAdmin run on the loaded session;
   behind them the handler issues the update, unless the id does not cast *)
RunGates(r) ==
    /\ inflight[r].pc = "start"
    /\ \E o \in SetRoleOuts(inflight[r].token, inflight[r].route,
                             inflight[r].id, inflight[r].role) :
           inflight' = [inflight EXCEPT ![r] =
               IF o.resp.out = "redirect /admin"
               THEN [@ EXCEPT !.pc = "update"] @@ [reply |-> o.resp]
               ELSE [@ EXCEPT !.pc = "respond"] @@ [reply |-> o.resp]]
    /\ resp' = NoResp
    /\ UNCHANGED <<users, sessions>>
    /\ Observe

(* the collection applies the update of request r *)
ApplyUpdate(r) ==
    /\ inflight[r].pc = "update"
    /\ users' = UpdateOne(inflight[r].id, inflight[r].role)
    /\ inflight' = [inflight EXCEPT ![r].pc = "respond"]
    /\ resp' = NoResp
    /\ UNCHANGED sessions
    /\ Observe

(* the response of request r ends: the session is touched and the response
   goes out (a request left without a response ends nothing) *)
Respond(r) ==
    /\ inflight[r].pc = "respond"
    /\ sessions' = IF inflight[r].reply.out = "no response"
                   THEN sessions ELSE TouchStore(inflight[r].token)
    /\ resp' = inflight[r].reply
    /\ inflight' = [inflight EXCEPT ![r].pc = "done"]
    /\ UNCHANGED users
    /\ Observe

ConcNext ==
    \/ \E r \in Reqs : RunGates(r)
    \/ \E r \in Reqs : ApplyUpdate(r)
    \/ \E r \in Reqs : Respond(r)

ConcSpec == ConcInit /\ [][ConcNext]_vars

----------------------------------------------------------------------------
(* Vocabulary of the properties *)

SetRoleRoutes == {"GET /promote/:id", "GET /demote/:id"}

GatedRoutes == {"GET /members", "GET /admin"} \cup SetRoleRoutes

(* the step served a request on one of the routes *)
Served(routes) == resp' # NoResp /\ resp'.route \in routes

(* the snapshot of token k is attached and its role is admin *)
AdminSnapshot(k) ==
    /\ sessions[k] # NoSession
    /\ sessions[k].expiresIn > 0
    /\ sessions[k].user.user_type = "admin"

UniqueEmail(i) == \A j \in 1..Len(users) : users[j].email = users[i].email => j = i

----------------------------------------------------------------------------
(* C1: a stored user's role changes only in a step that serves /promote/:id or
   /demote/:id to a token whose session is attached with snapshot role admin;
   such a request from a token with no session, or with snapshot role user,
   leaves every user record unchanged. *)
C1_RoleChangeOnlyByAdmin ==
    [][ /\ \A i \in 1..Len(users) :
              (i <= Len(users') /\ users'[i].user_type # users[i].user_type)
                  => Served(SetRoleRoutes) /\ AdminSnapshot(resp'.token)
        /\ (Served(SetRoleRoutes) /\ ~AdminSnapshot(resp'.token)) => users' = users
      ]_vars

(* an admin's promote or demote went through and changed a role: the record's
   role differs from the snapshot taken of it *)
C1_Witness ==
    /\ resp # NoResp /\ resp.route \in SetRoleRoutes /\ resp.out = "redirect /admin"
    /\ \E i \in 1..Len(users), k \in Tokens :
          /\ UniqueEmail(i)
          /\ sessions[k] # NoSession
          /\ sessions[k].user.email = users[i].email
          /\ sessions[k].user.user_type # users[i].user_type

----------------------------------------------------------------------------
(* the response is one only the route's own handler writes *)
HandlerRan(r) ==
    r.out \in {"render cats", "render index", "render admin", "redirect /admin",
               "no response", "error page"}

(* the step left the collection and the session store as they were *)
NoEffect == users' = users /\ sessions' = sessions

(* C2: isAuthenticated passes exactly when a session is attached: on /members,
   /admin, /promote/:id and /demote/:id the response is the redirect to
   /login, with nothing read or written, exactly when no session is attached;
   with a session attached the rest of the route runs: the handler of /members
   and /admin, and on /promote/:id and /demote/:id the isAdmin gate, behind
   which the handler runs exactly when the snapshot role is admin. *)
C2_AuthenticatedGate ==
    [][ Served(GatedRoutes) =>
          /\ resp'.out = "redirect /login" <=> ~Attached(resp'.token)
          /\ ~Attached(resp'.token) => (resp'.status = 302 /\ NoEffect)
          /\ (Attached(resp'.token) /\ resp'.route \notin SetRoleRoutes)
                => HandlerRan(resp')
          /\ (Attached(resp'.token) /\ resp'.route \in SetRoleRoutes)
                => (HandlerRan(resp') <=> AdminSnapshot(resp'.token))
      ]_vars

(* a gated route answered with the redirect a token whose stored session has
   expired, while another token has a session attached *)
C2_Witness ==
    /\ resp # NoResp /\ resp.route \in GatedRoutes /\ resp.out = "redirect /login"
    /\ sessions[resp.token] # NoSession /\ ~Attached(resp.token)
    /\ \E k \in Tokens : Attached(k)

----------------------------------------------------------------------------
(* C3: isAdmin passes exactly when a session is attached and its snapshot role
   is admin; on a request with no session isAdmin answers 403 and no redirect,
   while isAuthenticated answers the same request with the redirect to
   /login. *)
C3_AdminGate ==
    \A k \in Tokens :
        /\ isAdmin(k) = Pass <=> AdminSnapshot(k)
        /\ isAdmin(k) # Pass => (isAdmin(k).status = 403 /\ isAdmin(k).out = "render 403")
        /\ (sessions[k] = NoSession \/ sessions[k].expiresIn = 0)
              => /\ isAdmin(k).status = 403
                 /\ isAdmin(k).out # "redirect /login"
                 /\ isAuthenticated(k).status = 302
                 /\ isAuthenticated(k).out = "redirect /login"

(* the three cases side by side: an admin snapshot that has expired (no session
   for the gates), and an attached admin snapshot that passes *)
C3_Witness ==
    \E k1, k2 \in Tokens :
        /\ sessions[k1] # NoSession /\ sessions[k1].user.user_type = "admin"
        /\ ~Attached(k1) /\ isAdmin(k1) = Forbidden
        /\ isAuthenticated(k1) = RedirectLogin
        /\ isAdmin(k2) = Pass

----------------------------------------------------------------------------
(* C4: gate decisions use the session snapshot and not the stored record: a
   promote or demote changes no session's snapshot, and it changes no
   decision of isAdmin or of the /admin role check for any session; a session
   whose snapshot role is admin passes isAdmin whatever the stored role of its
   user has become. *)
C4_SnapshotDecides ==
    [][ /\ Served(SetRoleRoutes) =>
              \A k \in Tokens :
                  sessions[k] # NoSession =>
                      /\ sessions'[k] # NoSession
                      /\ sessions'[k].user = sessions[k].user
                      /\ Attached(k) =>
                            /\ isAdmin(k)' = isAdmin(k)
                            /\ GetAdminOut(k).resp' = GetAdminOut(k).resp
        /\ \A k \in Tokens :
              AdminSnapshot(k) =>
                  /\ isAdmin(k) = Pass
                  /\ GetAdminOut(k).resp.out = "render admin"
      ]_vars

(* an admin has been demoted while logged in: the stored role is user, the
   snapshot still says admin and still passes isAdmin *)
C4_Witness ==
    /\ resp # NoResp /\ resp.route = "GET /demote/:id" /\ resp.out = "redirect /admin"
    /\ \E i \in 1..Len(users), k \in Tokens :
          /\ UniqueEmail(i)
          /\ users[i].user_type = "user"
          /\ AdminSnapshot(k)
          /\ sessions[k].user.email = users[i].email
          /\ isAdmin(k) = Pass

----------------------------------------------------------------------------
(* C5: for every token, a session with a user snapshot is attached exactly when
   a signup or login on that token succeeded and neither a logout of the token
   nor the expiry of its stored session has happened since. *)
C5_SessionIffCreatedAndLive ==
    \A k \in Tokens : Attached(k) <=> life[k] = "active"

(* one session has expired without a logout while another, created and still
   live, is attached *)
C5_Witness ==
    \E k1, k2 \in Tokens :
        /\ sessions[k1] # NoSession /\ sessions[k1].expiresIn = 0
        /\ life[k1] = "absent"
        /\ life[k2] = "active" /\ Attached(k2)

----------------------------------------------------------------------------
(* C6: session expiry is absolute: the expiry of a session is fixed when a
   signup or login creates it and no other request moves it, so that every
   request made one hour after the creation or later finds the session absent,
   however many requests carried it in between. *)
C6_ExpiryNotRenewed ==
    [][ \A k \in Tokens :
          ( /\ resp' # NoResp
            /\ ~(resp'.token = k /\ resp'.out = "redirect /members")
            /\ sessions[k] # NoSession
            /\ sessions'[k] # NoSession )
          => sessions'[k].expiresIn = sessions[k].expiresIn
      ]_vars

----------------------------------------------------------------------------
(* C7: for every stored user (every signup that passed validation), a login
   with that user's email and password succeeds and attaches a session whose
   snapshot role is that user's role. *)
C7_SignupThenLogin ==
    \A i \in 1..Len(users), k \in Tokens, body \in LoginBodies :
        ( /\ LoginValid(body)
          /\ body["email"] = users[i].email
          /\ BcryptCompare(body["password"], users[i].password) )
        => \A o \in PostLoginOuts(k, body) :
              /\ o.resp.out = "redirect /members"
              /\ o.sessions[k] # NoSession
              /\ o.sessions[k].user.user_type = users[i].user_type

----------------------------------------------------------------------------
(* the handler's outcome leaves the collection as it is and every session as
   it is: the same tokens have a stored session, with the same snapshot, and
   the same tokens have one attached *)
KeepsUsersAndSessions(o) ==
    /\ o.users = users
    /\ \A k \in Tokens :
          /\ o.sessions[k] = NoSession <=> sessions[k] = NoSession
          /\ sessions[k] # NoSession =>
                /\ o.sessions[k].user = sessions[k].user
                /\ o.sessions[k].expiresIn > 0 <=> Attached(k)

(* the plain message with the retry link, status 200 *)
InlineMessage(r) ==
    /\ r.status = 200
    /\ r.out \in {"send validation error", "send User not found", "send Invalid password"}

Registered(email) == \E i \in 1..Len(users) : users[i].email = email

(* C8: a signup or login that fails (validation error, email not registered,
   password mismatch) answers with the inline message and no redirect, creates
   no user and no session, and leaves the collection and every session's
   existence and snapshot, the one attached to the request included, as they
   were. *)
C8_FailureChangesNothing ==
    \A k \in Tokens :
        /\ \A body \in SignupBodies, salt \in Salts :
              \A o \in {PostSignupOut(k, body, salt)} :
                  IF SignupValid(body)
                  THEN o.resp.out = "redirect /members"
                  ELSE InlineMessage(o.resp) /\ KeepsUsersAndSessions(o)
        /\ \A body \in LoginBodies :
              \A o \in PostLoginOuts(k, body) :
                  IF o.resp.out = "redirect /members"
                  THEN /\ LoginValid(body)
                       /\ \E i \in 1..Len(users) :
                             /\ users[i].email = body["email"]
                             /\ BcryptCompare(body["password"], users[i].password)
                  ELSE InlineMessage(o.resp) /\ KeepsUsersAndSessions(o)

(* a login with a wrong password was answered inline on a token that has a
   session attached *)
C8_Witness ==
    /\ resp # NoResp /\ resp.route = "POST /login"
    /\ resp.out = "send Invalid password"
    /\ Attached(resp.token)
    /\ Len(users) > 0

----------------------------------------------------------------------------
(* C9: a signup with valid input succeeds in every state, registered email or
   not, session or not: it appends exactly one record, whose role is the
   supplied one or user when none is supplied, attaches to the token a session
   whose snapshot is that record's name, email and role, and redirects to
   /members. *)
C9_ValidSignupSucceeds ==
    \A k \in Tokens, body \in SignupBodies, salt \in Salts :
        SignupValid(body) =>
            \A o \in {PostSignupOut(k, body, salt)} :
            \A new \in {o.users[Len(users) + 1]} :
                /\ Len(o.users) = Len(users) + 1
                /\ SubSeq(o.users, 1, Len(users)) = users
                /\ new.name = body["name"]
                /\ new.email = body["email"]
                /\ BcryptCompare(body["password"], new.password)
                /\ new.password # body["password"]
                /\ new.user_type \in {"user", "admin"}
                /\ Has(body, "user_type") => new.user_type = body["user_type"]
                /\ ~Has(body, "user_type") => new.user_type = "user"
                /\ o.sessions[k] # NoSession
                /\ o.sessions[k].expiresIn > 0
                /\ o.sessions[k].user = [name |-> new.name, email |-> new.email,
                                         user_type |-> new.user_type]
                /\ \A k2 \in Tokens \ {k} : o.sessions[k2] = sessions[k2]
                /\ o.resp.status = 302 /\ o.resp.out = "redirect /members"

(* a signup went through for an email that was registered already, as admin,
   and its session carries the new record *)
C9_Witness ==
    /\ resp # NoResp /\ resp.route = "POST /signup" /\ resp.out = "redirect /members"
    /\ Len(users) = 2
    /\ users[1].email = users[2].email
    /\ users[2].user_type = "admin"
    /\ sessions[resp.token] # NoSession
    /\ sessions[resp.token].user = Snapshot(users[2])

----------------------------------------------------------------------------
(* C10: GET /admin renders the user list only to a session whose snapshot role
   is admin: an attached session with another role gets the landing page (200,
   no 403), no session gets the redirect to /login, and the list is never
   rendered without an admin snapshot. *)
C10_AdminPage ==
    [][ Served({"GET /admin"}) =>
          LET k == resp'.token
          IN  /\ resp'.out = "render admin" <=> AdminSnapshot(k)
              /\ (Attached(k) /\ ~AdminSnapshot(k))
                    => (resp'.status = 200 /\ resp'.out = "render index")
              /\ ~Attached(k) => (resp'.status = 302 /\ resp'.out = "redirect /login")
              /\ users' = users
      ]_vars

(* /admin answered a logged-in user who is no admin with the landing page *)
C10_Witness ==
    /\ resp # NoResp /\ resp.route = "GET /admin" /\ resp.out = "render index"
    /\ Attached(resp.token)
    /\ sessions[resp.token].user.user_type = "user"

----------------------------------------------------------------------------
(* C11: a promote or demote request of an admin session whose id matches no
   stored user is answered with the redirect to /admin, changes no user record
   and surfaces no error. *)
C11_UnknownIdFailsSoft ==
    \A k \in Tokens, id \in Ids :
        (AdminSnapshot(k) /\ id \notin 1..Len(users)) =>
            \A o \in PromoteOuts(k, id) \cup DemoteOuts(k, id) :
                /\ o.resp.status = 302
                /\ o.resp.out = "redirect /admin"
                /\ o.users = users

----------------------------------------------------------------------------
(* both requests in flight have been answered *)
BothDone == \A r \in Reqs : inflight[r].pc = "done"

(* request r is a promote of a stored user *)
PromoteOfStored(r) ==
    /\ inflight[r].pc # "idle"
    /\ inflight[r].route = "GET /promote/:id"
    /\ inflight[r].id \in 1..Len(users)

(* C12: two promote requests of admin sessions for the same stored user, run
   side by side in any interleaving of their gates, their writes and their
   responses, are both answered with the redirect to /admin, and once both
   are answered the user's role is admin. *)
C12_ConcurrentPromotes ==
    ( /\ BothDone
      /\ \A r \in Reqs : PromoteOfStored(r) /\ AdminSnapshot(inflight[r].token) )
    => /\ \A r \in Reqs : inflight[r].reply.status = 302
                          /\ inflight[r].reply.out = "redirect /admin"
       /\ users[inflight[1].id].user_type = "admin"

(* two admin sessions on different tokens have both promoted the same user,
   and the last response went out *)
C12_Witness ==
    /\ BothDone
    /\ \A r \in Reqs : PromoteOfStored(r) /\ inflight[r].reply.out = "redirect /admin"
    /\ inflight[1].token # inflight[2].token
    /\ users[inflight[1].id].user_type = "admin"
    /\ resp # NoResp /\ resp.out = "redirect /admin"

----------------------------------------------------------------------------
(* C13: GET /logout needs no session and is idempotent: with or without a
   session attached it answers with the redirect to /, leaves the token
   without a stored session, so that both gates turn the token away
   afterwards, and leaves the collection and the other tokens' sessions alone;
   a second logout right after it gives the same store and the same
   response. *)
C13_LogoutIdempotent ==
    [][ \A k \in Tokens :
          (Served({"GET /logout"}) /\ resp'.token = k) =>
              /\ resp'.status = 302 /\ resp'.out = "redirect /"
              /\ sessions'[k] = NoSession
              /\ ~Attached(k)'
              /\ isAuthenticated(k)' = RedirectLogin
              /\ isAdmin(k)' = Forbidden
              /\ users' = users
              /\ \A k2 \in Tokens \ {k} : sessions'[k2] = sessions[k2]
              /\ LogoutOut(k)'.sessions = sessions'
              /\ LogoutOut(k)'.users = users'
              /\ LogoutOut(k)'.resp = resp'
      ]_vars

(* a logout was answered, its token has no session, and the other token's
   session is still attached *)
C13_Witness ==
    /\ resp # NoResp /\ resp.route = "GET /logout" /\ resp.out = "redirect /"
    /\ sessions[resp.token] = NoSession
    /\ \E k \in Tokens \ {resp.token} : Attached(k)

----------------------------------------------------------------------------
(* the step created the session of token k: a signup or login on k succeeded *)
Created(k) == resp' # NoResp /\ resp'.token = k /\ resp'.out = "redirect /members"

(* the step destroyed the session of token k: a logout on k *)
Destroyed(k) == resp' # NoResp /\ resp'.token = k /\ resp'.route = "GET /logout"

(* the step let the stored expiry of token k pass *)
Expired(k) == resp' = NoResp /\ sessions[k].expiresIn = 1 /\ sessions'[k].expiresIn = 0

(* C14: a session changes state in two ways only: from absent to active in a
   step where a signup or login on its token succeeds, and from active to
   absent in a step that is a logout on its token or in which its stored
   expiry passes; an active session's snapshot is replaced only by a
   successful signup or login on its token; a promote or demote changes no
   session's state or snapshot, that of the changed user included. *)
C14_SessionTransitions ==
    [][ \A k \in Tokens :
          /\ (~Attached(k) /\ Attached(k)') => Created(k)
          /\ (Attached(k) /\ ~Attached(k)') => (Destroyed(k) \/ Expired(k))
          /\ (Attached(k) /\ Attached(k)' /\ sessions'[k].user # sessions[k].user)
                => Created(k)
          /\ Served(SetRoleRoutes) =>
                /\ Attached(k)' <=> Attached(k)
                /\ Attached(k) => sessions'[k].user = sessions[k].user
      ]_vars

(* a user with a session on another token was demoted by an admin: the session
   is still attached, with the snapshot it had *)
C14_Witness ==
    /\ resp # NoResp /\ resp.route = "GET /demote/:id" /\ resp.out = "redirect /admin"
    /\ \E i \in 1..Len(users), k \in Tokens \ {resp.token} :
          /\ UniqueEmail(i)
          /\ users[i].user_type = "user"
          /\ Attached(k)
          /\ sessions[k].user.email = users[i].email
          /\ sessions[k].user.user_type = "admin"

----------------------------------------------------------------------------
(* the outcome o answers with the redirect to /admin and differs from the
   collection in the role of record id alone, which is role *)
SetsRole(o, id, role) ==
    /\ o.resp.status = 302 /\ o.resp.out = "redirect /admin"
    /\ Len(o.users) = Len(users)
    /\ \A j \in 1..Len(users) : j # id => o.users[j] = users[j]
    /\ o.users[id].user_type = role
    /\ Snapshot(o.users[id]) = [Snapshot(users[id]) EXCEPT !.user_type = role]
    /\ o.users[id].password = users[id].password
    /\ users[id].user_type = role => o.users = users

(* C15: a promote (demote) request of a session that passes both gates sets
   the role of the stored user it names to admin (user), whatever the role was
   and whoever the target is, the requester's own record and the only admin
   included, and changes nothing else; when the role is already the one the
   request sets, the collection stays as it is. *)
C15_RoleSetUnconditionally ==
    \A k \in Tokens, id \in 1..Len(users) :
        (isAuthenticated(k) = Pass /\ isAdmin(k) = Pass) =>
            /\ \A o \in PromoteOuts(k, id) : SetsRole(o, id, "admin")
            /\ \A o \in DemoteOuts(k, id) : SetsRole(o, id, "user")

(* the only admin among two users has demoted their own record: no stored user
   has role admin any more *)
C15_Witness ==
    /\ resp # NoResp /\ resp.route = "GET /demote/:id" /\ resp.out = "redirect /admin"
    /\ Len(users) = 2
    /\ \A i \in 1..Len(users) : users[i].user_type = "user"
    /\ users[1].email # users[2].email
    /\ \A k \in Tokens :
          Attached(k) => (k = resp.token /\ sessions[k].user.user_type = "admin")
    /\ Attached(resp.token)

----------------------------------------------------------------------------
ReadOnlyRoutes == {"POST /login", "GET /logout", "GET /", "GET /members", "GET /admin"}

(* C16: user records are created by a successful signup only, one per signup,
   are never deleted, and keep their id, name, email and password hash: in
   every step every stored record is still stored under its id with these
   fields as they were, the collection grows only in a step that answers
   POST /signup with the redirect to /members, and then by one record, and
   login, logout, GET /, GET /members, GET /admin and the passing of time leave
   the collection unchanged. *)
C16_RecordsPersist ==
    [][ /\ Len(users') >= Len(users)
        /\ \A i \in 1..Len(users) :
              /\ users'[i].name = users[i].name
              /\ users'[i].email = users[i].email
              /\ users'[i].password = users[i].password
        /\ Len(users') # Len(users) =>
              /\ Len(users') = Len(users) + 1
              /\ Served({"POST /signup"}) /\ resp'.out = "redirect /members"
        /\ (Served({"POST /signup"}) /\ resp'.out = "redirect /members")
              => Len(users') = Len(users) + 1
        /\ (resp' = NoResp \/ Served(ReadOnlyRoutes)) => users' = users
      ]_vars

(* a login succeeded in a collection of two records, one of which has had its
   role changed since another token took a snapshot of it *)
C16_Witness ==
    /\ resp # NoResp /\ resp.route = "POST /login" /\ resp.out = "redirect /members"
    /\ Len(users) = 2
    /\ \E i \in 1..Len(users), k \in Tokens \ {resp.token} :
          /\ UniqueEmail(i)
          /\ sessions[k] # NoSession
          /\ sessions[k].user.email = users[i].email
          /\ sessions[k].user.name = users[i].name
          /\ sessions[k].user.user_type # users[i].user_type

----------------------------------------------------------------------------
Roles == {"user", "admin"}

(* C17: in every reachable state the role of every stored user is user or
   admin, and so is the snapshot role of every stored session, attached or
   expired. *)
C17_RolesInEnum ==
    /\ \A i \in 1..Len(users) : users[i].user_type \in Roles
    /\ \A k \in Tokens :
          sessions[k] # NoSession => sessions[k].user.user_type \in Roles

(* a signup was turned away by validation while both roles are stored and
   sessions of both roles are attached *)
C17_Witness ==
    /\ resp # NoResp /\ resp.route = "POST /signup"
    /\ resp.out = "send validation error"
    /\ \A r \in Roles :
          /\ \E i \in 1..Len(users) : users[i].user_type = r
          /\ \E k \in Tokens : Attached(k) /\ sessions[k].user.user_type = r

----------------------------------------------------------------------------
SessionRoutes == {"POST /signup", "POST /login", "GET /logout"}

(* C18: sessions are independent of one another: a step that serves a signup,
   a login or a logout on one token, whatever requests on other tokens came
   before it, leaves the stored session of every other token as it is, neither
   created nor destroyed nor with another snapshot, also when it belongs to
   the same user. *)
C18_SessionsIndependent ==
    [][ \A k \in Tokens :
          (Served(SessionRoutes) /\ resp'.token = k) =>
              \A k2 \in Tokens \ {k} :
                  /\ sessions'[k2] = NoSession <=> sessions[k2] = NoSession
                  /\ Attached(k2)' <=> Attached(k2)
                  /\ sessions[k2] # NoSession => sessions'[k2].user = sessions[k2].user
      ]_vars

(* a user logged in on one token while another token holds a session of the
   same user with an older snapshot, which is still attached and unchanged *)
C18_Witness ==
    /\ resp # NoResp /\ resp.route = "POST /login" /\ resp.out = "redirect /members"
    /\ \E k \in Tokens \ {resp.token} :
          /\ Attached(k) /\ Attached(resp.token)
          /\ sessions[k].user.email = sessions[resp.token].user.email
          /\ sessions[k].user.user_type # sessions[resp.token].user.user_type
          /\ \A i, j \in 1..Len(users) : users[i].email = users[j].email => i = j

====
